---- MODULE Spec2Model ----
(***************************************************************************)
(* check_jwt_ttl.py: get_jwt_ttl_info(jwt_string).                         *)
(*                                                                         *)
(* One call of the function is modelled statement by statement.  Time is   *)
(* counted in ticks, the resolution of a datetime (a microsecond in the    *)
(* program, TicksPerSec ticks to the second here).  The system clock is a  *)
(* variable of the environment that advances on its own while the call     *)
(* runs; the call reads it once, at line 26.                               *)
(*                                                                         *)
(* Python's None is the empty tuple and a value v that is not None is      *)
(* <<v>>.  A returned dictionary is a record; a key the dictionary does    *)
(* not have ('error' on the two normal returns) is not in its DOMAIN.      *)
(***************************************************************************)
EXTENDS Integers, Sequences, FiniteSets, TLC

VARIABLES token, clock, pc, expiration_timestamp, expiration_datetime_utc,
          now_utc, is_expired, time_remaining, report

vars == <<token, clock, pc, expiration_timestamp, expiration_datetime_utc,
          now_utc, is_expired, time_remaining, report>>

\* Ticks of the datetime resolution in one second (scaled down).
TicksPerSec == 2
\* Largest Unix second a datetime can hold (scaled down); the smallest is
\* its negative.
MaxTimestamp == 3
\* Largest value the system clock takes, in ticks.
MaxClock == 4

None == <<>>
Some(v) == <<v>>

MinTimestamp == -MaxTimestamp
MinTick == MinTimestamp * TicksPerSec
MaxTick == MaxTimestamp * TicksPerSec + (TicksPerSec - 1)

(***************************************************************************)
(* The input string, described by what jwt.decode looks at.                *)
(*   segments : how many '.'-separated segments it has (3 is a compact JWT)*)
(*   enc      : whether the segments are base64url with valid padding      *)
(*   header   : whether the header segment is a JSON object                *)
(*   payload  : "object"    a JSON object,                                 *)
(*              "notjson"   not JSON text,                                 *)
(*              "notobject" JSON, but not an object,                       *)
(*              "deep"      JSON nested beyond the interpreter's recursion *)
(*                          limit                                          *)
(*   exp      : the payload's exp member.  kind "absent": no such member;  *)
(*              "null": JSON null; "str": a value that is not a number;    *)
(*              "int": val Unix seconds; "float": a fractional number of   *)
(*              val half ticks.                                            *)
(***************************************************************************)
NoExp == [kind |-> "absent", val |-> 0]

ExpInts == (MinTimestamp - 1) .. (MaxTimestamp + 1)
ExpHalfTicks == ((MinTimestamp - 1) * TicksPerSec * 2) .. ((MaxTimestamp + 1) * TicksPerSec * 2)

ExpValues ==
    {NoExp, [kind |-> "null", val |-> 0], [kind |-> "str", val |-> 0]}
    \cup [kind : {"int"}, val : ExpInts]
    \cup [kind : {"float"}, val : ExpHalfTicks]

Tokens ==
    {t \in [segments : 1..3, enc : {"ok", "bad"}, header : {"ok", "notjson"},
            payload : {"object", "notjson", "notobject", "deep"},
            exp : ExpValues] :
        t.payload # "object" => t.exp = NoExp}

Numeric(e) == e.kind \in {"int", "float"}

\* The exact instant a numeric exp denotes, in half ticks.
ExactHalfTicks(e) == IF e.kind = "int" THEN e.val * TicksPerSec * 2 ELSE e.val

(***************************************************************************)
(* jwt.decode(jwt_string, options={"verify_signature": False}), line 21.   *)
(* It splits the string into segments, base64url-decodes header and        *)
(* payload and parses both as JSON objects; each failure is a DecodeError. *)
(* json.loads raises RecursionError, which is not a DecodeError, on text   *)
(* nested too deeply.  No claim is validated when the signature is not.    *)
(***************************************************************************)
JwtDecode(t) ==
    IF t.segments < 3 THEN [exc |-> "DecodeError", payload |-> NoExp]
    ELSE IF t.enc # "ok" THEN [exc |-> "DecodeError", payload |-> NoExp]
    ELSE IF t.header # "ok" THEN [exc |-> "DecodeError", payload |-> NoExp]
    ELSE IF t.payload \in {"notjson", "notobject"}
        THEN [exc |-> "DecodeError", payload |-> NoExp]
    ELSE IF t.payload = "deep" THEN [exc |-> "RecursionError", payload |-> NoExp]
    ELSE [exc |-> "none", payload |-> t.exp]

\* decoded_payload.get('exp'), line 22: None for a missing member and for a
\* member whose value is JSON null alike.
PayloadGetExp(p) ==
    IF p.kind \in {"absent", "null"} THEN None ELSE Some(p)

\* `expiration_timestamp is not None`, line 24.
IsTruthy(ts) == ts # None /\ ~(Numeric(ts[1]) /\ ts[1].val = 0)

IsNotNone(ts) == ts # None

\* Rounding of half ticks to ticks, ties to the even tick, as
\* datetime.fromtimestamp rounds a float to microseconds.
RoundHalfEven(h) ==
    LET q == h \div 2
    IN  IF h % 2 = 0 THEN q
        ELSE IF q % 2 = 0 THEN q ELSE q + 1

\* datetime.fromtimestamp(expiration_timestamp, tz=timezone.utc), line 25.
\* A number out of range raises OverflowError, ValueError or OSError by its
\* size; all three are caught by line 56 alike and go by one name here.
FromTimestamp(e) ==
    IF ~Numeric(e) THEN [exc |-> "TypeError", dt |-> 0]
    ELSE LET t == RoundHalfEven(ExactHalfTicks(e))
         IN  IF t < MinTick \/ t > MaxTick
                 THEN [exc |-> "OverflowError", dt |-> 0]
                 ELSE [exc |-> "none", dt |-> t]

\* now_utc > expiration_datetime_utc, line 27.
IsExpiredInclusive(now, exp_dt) == now >= exp_dt

IsExpiredFlipped(now, exp_dt) == now < exp_dt

IsExpired(now, exp_dt) == now > exp_dt

\* Lines 29-32.
TimeRemainingSwapped(now, exp_dt, expired) ==
    IF ~expired THEN now - exp_dt ELSE 0

TimeRemaining(now, exp_dt, expired) ==
    IF ~expired THEN exp_dt - now ELSE 0

\* The dictionary of lines 34-39.
TtlReportDocstring(ts, dt, expired, remaining) ==
    [expiration_timestamp |-> ts,
     expiration_datetime_utc |-> dt,
     is_expired |-> expired,
     time_remaining |-> IF ~expired[1] THEN remaining ELSE None]

TtlReport(ts, dt, expired, remaining) ==
    [expiration_timestamp |-> ts,
     expiration_datetime_utc |-> dt,
     is_expired |-> expired,
     time_remaining |-> IF ~expired[1] THEN remaining ELSE Some(0)]

\* The dictionary of lines 41-46.
NoExpReportZero ==
    [expiration_timestamp |-> None, expiration_datetime_utc |-> None,
     is_expired |-> None, time_remaining |-> Some(0)]

NoExpReport ==
    [expiration_timestamp |-> None, expiration_datetime_utc |-> None,
     is_expired |-> None, time_remaining |-> None]

\* The dictionary of lines 49-55.
InvalidFormatReport ==
    [expiration_timestamp |-> None, expiration_datetime_utc |-> None,
     is_expired |-> None, time_remaining |-> None,
     error |-> "Invalid JWT format"]

\* f'An unexpected error occurred: {e}', line 62.
UnexpectedMessage(exc) ==
    CASE exc = "TypeError" -> "An unexpected error occurred: TypeError"
      [] exc = "OverflowError" -> "An unexpected error occurred: OverflowError"
      [] exc = "RecursionError" -> "An unexpected error occurred: RecursionError"
      [] OTHER -> "An unexpected error occurred: DecodeError"

\* The dictionary of lines 57-63.
UnexpectedReport(exc) ==
    [expiration_timestamp |-> None, expiration_datetime_utc |-> None,
     is_expired |-> None, time_remaining |-> None,
     error |-> UnexpectedMessage(exc)]

NoReport == [pending |-> TRUE]

(***************************************************************************)
(* The except clauses, lines 48-63, for an exception exc raised in the try *)
(* block while the local expiration_timestamp holds ts: where control      *)
(* goes and what is returned.  An exception no clause catches leaves the   *)
(* function.                                                               *)
(***************************************************************************)
HandleNoCatchAll(exc, ts) ==
    IF exc = "DecodeError"
        THEN [pc |-> "returned", report |-> InvalidFormatReport]
        ELSE [pc |-> "raised", report |-> NoReport]

HandleCatchAllFirst(exc, ts) ==
    [pc |-> "returned", report |-> UnexpectedReport(exc)]

HandleKeepTimestamp(exc, ts) ==
    IF exc = "DecodeError"
        THEN [pc |-> "returned", report |-> InvalidFormatReport]
        ELSE [pc |-> "returned",
              report |-> [UnexpectedReport(exc) EXCEPT !.expiration_timestamp = ts]]

Handle(exc, ts) ==
    IF exc = "DecodeError"
        THEN [pc |-> "returned", report |-> InvalidFormatReport]
        ELSE [pc |-> "returned", report |-> UnexpectedReport(exc)]

Init ==
    /\ token \in Tokens
    /\ clock \in 0..MaxClock
    /\ pc = "decode"
    /\ expiration_timestamp = None
    /\ expiration_datetime_utc = None
    /\ now_utc = None
    /\ is_expired = None
    /\ time_remaining = None
    /\ report = NoReport

\* The system clock advances, at any moment.
Tick ==
    /\ clock < MaxClock
    /\ clock' = clock + 1
    /\ UNCHANGED <<token, pc, expiration_timestamp, expiration_datetime_utc,
                   now_utc, is_expired, time_remaining, report>>

\* Lines 21-22, and the except clauses when jwt.decode raises.
Decode ==
    /\ pc = "decode"
    /\ LET out == JwtDecode(token)
       IN  IF out.exc # "none"
               THEN LET h == Handle(out.exc, expiration_timestamp)
                    IN  /\ pc' = h.pc
                        /\ report' = h.report
                        /\ UNCHANGED expiration_timestamp
               ELSE /\ expiration_timestamp' = PayloadGetExp(out.payload)
                    /\ pc' = "convert"
                    /\ UNCHANGED report
    /\ UNCHANGED <<token, clock, expiration_datetime_utc, now_utc, is_expired,
                   time_remaining>>

\* Lines 24-25, the return of lines 41-46 when there is no exp, and the
\* except clauses when fromtimestamp raises.
Convert ==
    /\ pc = "convert"
    /\ IF ~IsNotNone(expiration_timestamp)
           THEN /\ pc' = "returned"
                /\ report' = NoExpReport
                /\ UNCHANGED expiration_datetime_utc
           ELSE LET out == FromTimestamp(expiration_timestamp[1])
                IN  IF out.exc # "none"
                        THEN LET h == Handle(out.exc, expiration_timestamp)
                             IN  /\ pc' = h.pc
                                 /\ report' = h.report
                                 /\ UNCHANGED expiration_datetime_utc
                        ELSE /\ expiration_datetime_utc' = Some(out.dt)
                             /\ pc' = "clock"
                             /\ UNCHANGED report
    /\ UNCHANGED <<token, clock, expiration_timestamp, now_utc, is_expired,
                   time_remaining>>

\* Line 26.
ReadClock ==
    /\ pc = "clock"
    /\ now_utc' = Some(clock)
    /\ pc' = "compare"
    /\ UNCHANGED <<token, clock, expiration_timestamp, expiration_datetime_utc,
                   is_expired, time_remaining, report>>

\* Lines 27-32.
Compare ==
    /\ pc = "compare"
    /\ LET expired == IsExpired(now_utc[1], expiration_datetime_utc[1])
       IN  /\ is_expired' = Some(expired)
           /\ time_remaining' =
                  Some(TimeRemaining(now_utc[1], expiration_datetime_utc[1], expired))
    /\ pc' = "return"
    /\ UNCHANGED <<token, clock, expiration_timestamp, expiration_datetime_utc,
                   now_utc, report>>

\* Lines 34-39.
Return ==
    /\ pc = "return"
    /\ report' = TtlReport(expiration_timestamp, expiration_datetime_utc,
                           is_expired, time_remaining)
    /\ pc' = "returned"
    /\ UNCHANGED <<token, clock, expiration_timestamp, expiration_datetime_utc,
                   now_utc, is_expired, time_remaining>>

Call == Decode \/ Convert \/ ReadClock \/ Compare \/ Return

Next == Tick \/ Decode \/ Convert \/ ReadClock \/ Compare \/ Return

Spec == Init /\ [][Next]_vars

\* The call is synchronous and single-threaded: once entered it runs on.
FairSpec == Spec /\ WF_vars(Call)

(***************************************************************************)
(* Vocabulary of the properties.                                           *)
(***************************************************************************)
Returned == pc = "returned"

\* jwt.decode returns a payload for the token.
Decodable(t) == JwtDecode(t).exc = "none"

\* The string is not a structurally valid compact JWT.
Malformed(t) ==
    \/ t.segments # 3
    \/ t.enc # "ok"
    \/ t.header # "ok"
    \/ t.payload \in {"notjson", "notobject"}

\* exp is a number that denotes a whole tick, and that tick.
Aligned(e) == Numeric(e) /\ ExactHalfTicks(e) % 2 = 0
ExpTick(e) == ExactHalfTicks(e) \div 2

\* exp is a number datetime can hold.
InRange(e) ==
    /\ Numeric(e)
    /\ RoundHalfEven(ExactHalfTicks(e)) >= MinTick
    /\ RoundHalfEven(ExactHalfTicks(e)) <= MaxTick

\* The current instant of the call: the clock value read at line 26, and
\* the clock's present value when the call ended without reading it.
NowOf == IF now_utc # None THEN now_utc[1] ELSE clock

HasError == "error" \in DOMAIN report

\* C1 as stated: a token whose exp equals the instant read is reported
\* expired.
C1_Original ==
    (Returned /\ Decodable(token) /\ Aligned(token.exp) /\ now_utc # None
        /\ ExpTick(token.exp) = NowOf)
    => report.is_expired = Some(TRUE)

\* C1, amended: a token whose exp equals the instant read is reported not
\* expired (now_utc > exp is strict), with a zero time_remaining.
C1_ExpEqualsNowNotExpired ==
    (Returned /\ Decodable(token) /\ Aligned(token.exp) /\ now_utc # None
        /\ ExpTick(token.exp) = NowOf)
    => /\ report.is_expired = Some(FALSE)
       /\ report.time_remaining = Some(0)

C1_Witness ==
    /\ Returned
    /\ now_utc # None
    /\ Aligned(token.exp)
    /\ ExpTick(token.exp) = now_utc[1]
    /\ report.is_expired = Some(FALSE)

\* C2 as stated: expiration_timestamp is present exactly when the payload
\* has an exp member, whatever its value.
C2_Original ==
    Returned =>
        (report.expiration_timestamp # None <=> token.exp.kind # "absent")

\* C2, amended: expiration_timestamp is present exactly when the payload
\* has an exp member that is a number datetime can hold (0 and negative
\* numbers included), and is then that member's value; for JSON null, a
\* non-number or a number out of range it is None.
C2_TimestampPresentIffConvertible ==
    Returned =>
        /\ report.expiration_timestamp # None
              <=> (Decodable(token) /\ InRange(token.exp))
        /\ report.expiration_timestamp # None
              => report.expiration_timestamp = Some(token.exp)

C2_Witness ==
    /\ Returned
    /\ token.exp = [kind |-> "int", val |-> 0]
    /\ report.expiration_timestamp = Some(token.exp)

\* C3: a decodable token without exp yields the four fields None and a
\* dictionary without an 'error' key.
C3_NoExpAllAbsentNoError ==
    (Returned /\ Decodable(token) /\ token.exp.kind = "absent")
    => /\ DOMAIN report = {"expiration_timestamp", "expiration_datetime_utc",
                           "is_expired", "time_remaining"}
       /\ report.expiration_timestamp = None
       /\ report.expiration_datetime_utc = None
       /\ report.is_expired = None
       /\ report.time_remaining = None

C3_Witness ==
    /\ Returned
    /\ Decodable(token)
    /\ token.exp.kind = "absent"
    /\ ~HasError
    /\ report.time_remaining = None

C6_Total == <>(pc = "returned" /\ "expiration_timestamp" \in DOMAIN report)

C6_Witness ==
    /\ Returned
    /\ Numeric(token.exp)
    /\ HasError
    /\ report.error = "An unexpected error occurred: OverflowError"

C8_ErrorImpliesAllAbsent ==
    (Returned /\ HasError)
    => /\ report.expiration_timestamp = None
       /\ report.expiration_datetime_utc = None
       /\ report.is_expired = None
       /\ report.time_remaining = None

C8_Witness ==
    /\ Returned
    /\ token.exp.kind = "str"
    /\ expiration_timestamp # None
    /\ HasError

\* C9: time_remaining of a returned dictionary is None, zero or positive.
C9_TimeRemainingNeverNegative ==
    (Returned /\ report.time_remaining # None)
    => report.time_remaining[1] >= 0

C9_Witness ==
    /\ Returned
    /\ now_utc # None
    /\ now_utc[1] > expiration_datetime_utc[1] + 1
    /\ report.time_remaining = Some(0)

\* C10, the docstring: time_remaining is None when exp is not found or the
\* token is already expired, and the time left until expiration otherwise.
C10_Docstring ==
    (Returned /\ ~HasError)
    => IF report.expiration_timestamp = None \/ report.is_expired = Some(TRUE)
           THEN report.time_remaining = None
           ELSE report.time_remaining =
                    Some(report.expiration_datetime_utc[1] - now_utc[1])

====
